---- MODULE Spec2Model ----
(***************************************************************************)
(* The authenticated retrying request executor of the cache client:        *)
(* makeRetryRequest() (execute), handleRequestError(), authenticate(),     *)
(* refreshToken(), isAuthenticated() and login(), with the single-flight   *)
(* coordination of concurrent authentications.                             *)
(*                                                                         *)
(* Every network round trip is a suspension point: a round trip is sent by *)
(* one action and answered by another, so that round trips of different    *)
(* callers interleave freely.                                              *)
(***************************************************************************)
EXTENDS Integers, Sequences, FiniteSets, TLC

\* ---------------------------------------------------------------- bounds
NumClients == 2
NumCallers == 2
MaxAttempts == 3
MaxFaults == 3

Clients == 1..NumClients
Callers == 1..NumCallers

\* ------------------------------------------------------------- constants
Unauthorized == 401

RetryableStatuses == {408, 411, 412, 425, 426, 500, 501, 502, 503, 504, 505, 506, 510, 511}

NonRetryableStatuses == {400, 402, 404, 405, 406, 409, 410, 413, 414, 415, 416, 417, 422, 428, 429, 431, 451}

\* ------------------------------------------------------- request outcomes
NoError == [k |-> "none", code |-> 0]

TransportError == [k |-> "transport", code |-> 0]

HandlerError == [k |-> "handler", code |-> 0]

StatusError(s) == [k |-> "status", code |-> s]

AllStatuses == {Unauthorized} \cup RetryableStatuses \cup NonRetryableStatuses

\* One status of each class of the decision table.
RepresentativeStatuses == {Unauthorized, 503, 404}

\* The failures a backend answers a wrapped call with.  Two kinds of run are
\* explored.  In a "single" run one logical call of any kind is made and the
\* backend answers with any status or error.  In a "concurrent" run every
\* caller makes a call that can need authentication (a wrapped request or
\* login()) and the backend answers with the representative statuses.
Errors(b) ==
    IF b = "single"
    THEN {TransportError, HandlerError} \cup {StatusError(s) : s \in AllStatuses}
    ELSE {StatusError(s) : s \in RepresentativeStatuses}

\* Answers of the status endpoint: the user it names, or a failure.
StatusAnswers == {"self", "other", "null", "status500", "neterror"}

\* The answers the status endpoint gives in a run of kind b.
Answers(b) == IF b = "single" THEN StatusAnswers ELSE {"self", "other"}

\* Mutant: any user named by a successful answer counts as authenticated.
IsAuthenticatedResultAnyUser(a) == a \in {"self", "other"}

\* isAuthenticated(): true only for a successful answer naming the signer's DID.
IsAuthenticatedResult(a) == a = "self"

\* ------------------------------------------------------------ classifier
\* Mutant: of the statuses only the 5xx are retried.
ClassifyOnly5xx(isAuthEndpoint, err) ==
    IF isAuthEndpoint THEN "Fail"
    ELSE IF err.k = "handler" THEN "Fail"
    ELSE IF err.k = "transport" THEN "Retry"
    ELSE IF err.code = Unauthorized THEN "ReauthenticateThenRetry"
    ELSE IF err.code >= 500 THEN "Retry"
    ELSE "Fail"

\* Mutant: 429 (too many requests) is retried as well.
ClassifyRetry429(isAuthEndpoint, err) ==
    IF isAuthEndpoint THEN "Fail"
    ELSE IF err.k = "handler" THEN "Fail"
    ELSE IF err.k = "transport" THEN "Retry"
    ELSE IF err.code = Unauthorized THEN "ReauthenticateThenRetry"
    ELSE IF err.code \in RetryableStatuses \cup {429} THEN "Retry"
    ELSE "Fail"

\* Mutant: an error without a response is not retried.
ClassifyTransportFail(isAuthEndpoint, err) ==
    IF isAuthEndpoint THEN "Fail"
    ELSE IF err.k \in {"handler", "transport"} THEN "Fail"
    ELSE IF err.code = Unauthorized THEN "ReauthenticateThenRetry"
    ELSE IF err.code \in RetryableStatuses THEN "Retry"
    ELSE "Fail"

\* Mutant: the endpoint the call targeted is not looked at.
ClassifyAnyEndpoint(isAuthEndpoint, err) ==
    IF err.k = "handler" THEN "Fail"
    ELSE IF err.k = "transport" THEN "Retry"
    ELSE IF err.code = Unauthorized THEN "ReauthenticateThenRetry"
    ELSE IF err.code \in RetryableStatuses THEN "Retry"
    ELSE "Fail"

\* Mutant: every error that carries no status is retried.
ClassifyRetryHandler(isAuthEndpoint, err) ==
    IF isAuthEndpoint THEN "Fail"
    ELSE IF err.k \in {"handler", "transport"} THEN "Retry"
    ELSE IF err.code = Unauthorized THEN "ReauthenticateThenRetry"
    ELSE IF err.code \in RetryableStatuses THEN "Retry"
    ELSE "Fail"

\* Mutant: a retryable status re-authenticates before the retry, as a 401 does.
ClassifyReauthOnRetryable(isAuthEndpoint, err) ==
    IF isAuthEndpoint THEN "Fail"
    ELSE IF err.k = "handler" THEN "Fail"
    ELSE IF err.k = "transport" THEN "Retry"
    ELSE IF err.code = Unauthorized THEN "ReauthenticateThenRetry"
    ELSE IF err.code \in RetryableStatuses THEN "ReauthenticateThenRetry"
    ELSE "Fail"

Classify(isAuthEndpoint, err) ==
    IF isAuthEndpoint THEN "Fail"
    ELSE IF err.k = "handler" THEN "Fail"
    ELSE IF err.k = "transport" THEN "Retry"
    ELSE IF err.code = Unauthorized THEN "ReauthenticateThenRetry"
    ELSE IF err.code \in RetryableStatuses THEN "Retry"
    ELSE "Fail"

\* ------------------------------------------------------------ claim values
\* A JavaScript value: its kind k, for a primitive what it is written as, for
\* an object its own enumerable properties and the keys it inherits.
JsValue(k, v, own, proto) == [k |-> k, v |-> v, own |-> own, proto |-> proto]

Primitive(k, v) == JsValue(k, v, <<>>, {})

Undefined == Primitive("undefined", "undefined")

\* The primitives readyToBeRegisteredOnchain() is called with.
Primitives ==
    {Undefined, Primitive("null", "null")}
        \cup {Primitive("boolean", v) : v \in {"true", "false"}}
        \cup {Primitive("number", v) : v \in {"0", "NaN", "1"}}
        \cup {Primitive("string", v) : v \in {"", "claimType"}}

\* The properties of Claim that the objects under check may have.
ClaimKeys ==
    {"claimType", "claimTypeVersion", "subject", "onChainProof", "acceptedBy",
     "subjectAgreement", "expirationTimestamp"}

\* The values a property is given: present but undefined, or a string.
PropertyValues == {"undefined", "0x01"}

\* The prototypes of the objects under check: none of the keys, or all of
\* those that are looked for.
Prototypes == {{}, {"claimType", "claimTypeVersion", "subject", "onChainProof", "acceptedBy"}}

Objects ==
    {JsValue("object", "object", own, proto) :
        own \in UNION {[K -> PropertyValues] : K \in SUBSET ClaimKeys},
        proto \in Prototypes}

Claims == Primitives \cup Objects

\* !x is false.
Truthy(x) ==
    CASE x.k \in {"undefined", "null"} -> FALSE
      [] x.k = "boolean" -> x.v = "true"
      [] x.k = "number" -> x.v \notin {"0", "NaN"}
      [] x.k = "string" -> x.v /= ""
      [] OTHER -> TRUE

\* typeof x.
TypeOf(x) == IF x.k = "null" THEN "object" ELSE x.k

\* Object.keys(x): the own enumerable keys.
ObjectKeys(x) == DOMAIN x.own

requiredProps ==
    <<"claimType", "claimTypeVersion", "subject", "onChainProof", "acceptedBy">>

\* Mutant: subjectAgreement is looked for as well.
readyToBeRegisteredOnchainWithAgreement(x) ==
    IF ~Truthy(x) THEN FALSE
    ELSE IF TypeOf(x) /= "object" THEN FALSE
    ELSE LET claimProps == ObjectKeys(x)
         IN  /\ \A i \in 1..Len(requiredProps) : requiredProps[i] \in claimProps
             /\ "subjectAgreement" \in claimProps

readyToBeRegisteredOnchain(x) ==
    IF ~Truthy(x) THEN FALSE
    ELSE IF TypeOf(x) /= "object" THEN FALSE
    ELSE LET claimProps == ObjectKeys(x)
         IN  \A i \in 1..Len(requiredProps) : requiredProps[i] \in claimProps

\* ----------------------------------------------------------------- state
VARIABLES
    backend,        \* the kind of run: "single" or "concurrent"
    token,          \* client -> access token held as the bearer credential (0: none)
    refresh_token,  \* client -> stored refresh token (0: none)
    authPromise,    \* client -> in-flight authentication marker: the caller whose
                    \*           authenticate() invocation is shared (0: none)
    issued,         \* number of token pairs the server has issued
    faults,         \* number of failures the backend has answered with
    authCalls,      \* client -> authenticate() invocations
    loginTrips,     \* client -> POST /login round trips
    loginRejected,  \* client -> POST /login round trips rejected or unreachable
    refreshTrips,   \* client -> GET /refresh_token round trips
    statusTrips,    \* client -> status endpoint round trips
    kind,           \* caller -> the call it makes
    owner,          \* caller -> the client it calls
    pc,             \* caller -> its position
    calls,          \* caller -> requestFn invocations
    bearer,         \* caller -> token carried by its last attempt
    result,         \* caller -> what the call returned or raised
    lastErr,        \* caller -> the failure of its last attempt
    resps,          \* caller -> decisions taken on its responses, in order
    authPc,         \* caller -> round trip its authenticate() invocation waits on
    refreshed,      \* caller -> token pair its authenticate() got from refreshToken()
    waitsOn,        \* caller -> the caller whose authenticate() it waits on (0: none)
    awaited,        \* caller -> outcomes of the authentications it waited on
    started,        \* caller -> authenticate() invocations it made
    sawRunning,     \* caller -> for each need of authentication, whether an
                    \*           authenticate() invocation was running on its client
    probed,         \* caller -> the answer its login() or isAuthenticated() probe got
    handlerErrs,    \* caller -> errors thrown by handleRequestError() in its call
    authProbed,     \* client -> the answer the last status probe of authenticate() got,
                    \*           until the login round trip that follows it answers
    refreshSubmitted, \* client -> the refresh token submitted by the refresh round
                    \*           trip in flight (0: none in flight)
    claim,          \* the value readyToBeRegisteredOnchain() is called with
    returned        \* what readyToBeRegisteredOnchain() returned (<<>>: not called)

clientVars == <<backend, token, refresh_token, authPromise, issued, faults,
                authCalls, loginTrips, loginRejected, refreshTrips, statusTrips,
                refreshSubmitted, authProbed>>

callerVars == <<kind, owner, pc, calls, bearer, result, lastErr, resps,
                authPc, refreshed, waitsOn, awaited, started, sawRunning, probed,
                handlerErrs>>

claimVars == <<claim, returned>>

vars == <<clientVars, callerVars, claimVars>>

NoResult == [type |-> "none", err |-> NoError]

Value == [type |-> "value", err |-> NoError]

Raised(t, e) == [type |-> t, err |-> e]

\* A client and its callers as new CacheClient() leaves them.
Constructed ==
    /\ token = [c \in Clients |-> 0]
    /\ refresh_token = [c \in Clients |-> 0]
    /\ authPromise = [c \in Clients |-> 0]
    /\ issued = 0
    /\ faults = 0
    /\ authCalls = [c \in Clients |-> 0]
    /\ loginTrips = [c \in Clients |-> 0]
    /\ loginRejected = [c \in Clients |-> 0]
    /\ refreshTrips = [c \in Clients |-> 0]
    /\ statusTrips = [c \in Clients |-> 0]
    /\ kind = [r \in Callers |-> "none"]
    /\ owner = [r \in Callers |-> 1]
    /\ pc = [r \in Callers |-> "new"]
    /\ calls = [r \in Callers |-> 0]
    /\ bearer = [r \in Callers |-> 0]
    /\ result = [r \in Callers |-> NoResult]
    /\ lastErr = [r \in Callers |-> NoError]
    /\ resps = [r \in Callers |-> <<>>]
    /\ authPc = [r \in Callers |-> "idle"]
    /\ refreshed = [r \in Callers |-> 0]
    /\ waitsOn = [r \in Callers |-> 0]
    /\ awaited = [r \in Callers |-> <<>>]
    /\ started = [r \in Callers |-> 0]
    /\ sawRunning = [r \in Callers |-> <<>>]
    /\ probed = [r \in Callers |-> "none"]
    /\ handlerErrs = [r \in Callers |-> 0]
    /\ authProbed = [c \in Clients |-> "none"]
    /\ refreshSubmitted = [c \in Clients |-> 0]

Init ==
    /\ backend \in {"single", "concurrent"}
    /\ Constructed
    /\ claim = Undefined
    /\ returned = <<>>

\* The backend answers with a failure.  A single call is explored against a
\* backend that may fail every time; concurrent calls against one that fails
\* at most MaxFaults times.
Fault ==
    /\ backend = "single" \/ faults < MaxFaults
    /\ faults' = faults + 1

\* The authenticate() invocations running on client c, by the caller that made them.
Running(c) == {r \in Callers : owner[r] = c /\ authPc[r] /= "idle"}

\* -------------------------------------------------- single-flight coordinator
\* Mutant: the started authentication is not recorded in the marker.
BeginAuthenticateUnmarked(c, r) ==
    /\ authCalls' = [authCalls EXCEPT ![c] = @ + 1]
    /\ UNCHANGED authPromise
    /\ waitsOn' = [waitsOn EXCEPT ![r] = r]
    /\ IF refresh_token[c] /= 0
       THEN /\ authPc' = [authPc EXCEPT ![r] = "refresh"]
            /\ refreshTrips' = [refreshTrips EXCEPT ![c] = @ + 1]
            /\ refreshSubmitted' = [refreshSubmitted EXCEPT ![c] = refresh_token[c]]
            /\ UNCHANGED loginTrips
       ELSE /\ authPc' = [authPc EXCEPT ![r] = "login"]
            /\ loginTrips' = [loginTrips EXCEPT ![c] = @ + 1]
            /\ UNCHANGED <<refreshTrips, refreshSubmitted>>

\* Mutant: the refresh round trip is sent whether or not a refresh token is stored.
BeginAuthenticateRefreshAlways(c, r) ==
    /\ authCalls' = [authCalls EXCEPT ![c] = @ + 1]
    /\ authPromise' = [authPromise EXCEPT ![c] = r]
    /\ waitsOn' = [waitsOn EXCEPT ![r] = r]
    /\ authPc' = [authPc EXCEPT ![r] = "refresh"]
    /\ refreshTrips' = [refreshTrips EXCEPT ![c] = @ + 1]
    /\ refreshSubmitted' = [refreshSubmitted EXCEPT ![c] = refresh_token[c]]
    /\ UNCHANGED loginTrips

\* authenticate() called by r, up to its first suspension point: refreshToken()
\* sends the refresh round trip when a refresh token is stored and otherwise
\* resolves with nothing, in which case the login round trip is sent at once.
BeginAuthenticate(c, r) ==
    /\ authCalls' = [authCalls EXCEPT ![c] = @ + 1]
    /\ authPromise' = [authPromise EXCEPT ![c] = r]
    /\ waitsOn' = [waitsOn EXCEPT ![r] = r]
    /\ IF refresh_token[c] /= 0
       THEN /\ authPc' = [authPc EXCEPT ![r] = "refresh"]
            /\ refreshTrips' = [refreshTrips EXCEPT ![c] = @ + 1]
            /\ refreshSubmitted' = [refreshSubmitted EXCEPT ![c] = refresh_token[c]]
            /\ UNCHANGED loginTrips
       ELSE /\ authPc' = [authPc EXCEPT ![r] = "login"]
            /\ loginTrips' = [loginTrips EXCEPT ![c] = @ + 1]
            /\ UNCHANGED <<refreshTrips, refreshSubmitted>>

\* Mutant: the marker is never consulted, every need starts an authentication.
JoinsInFlightNever(c) == FALSE

\* TRUE when a caller needing authentication joins the one in flight.
JoinsInFlight(c) == authPromise[c] /= 0

\* Mutant: the authentication is started or joined but not awaited.
EnsureAuthenticatedNoAwait(c, r) ==
    /\ IF JoinsInFlight(c)
       THEN /\ waitsOn' = [waitsOn EXCEPT ![r] = authPromise[c]]
            /\ UNCHANGED <<authCalls, authPromise, authPc, refreshTrips, loginTrips,
                           refreshSubmitted>>
       ELSE BeginAuthenticate(c, r)
    /\ pc' = [pc EXCEPT ![r] = "ready"]
    /\ started' = [started EXCEPT ![r] = IF JoinsInFlight(c) THEN @ ELSE @ + 1]
    /\ sawRunning' = [sawRunning EXCEPT ![r] = Append(@, Running(c) /= {})]

\* Mutant: a call that needed authentication before does not authenticate again.
EnsureAuthenticatedOncePerCall(c, r) ==
    IF sawRunning[r] /= <<>>
    THEN /\ pc' = [pc EXCEPT ![r] = "ready"]
         /\ UNCHANGED <<waitsOn, authCalls, authPromise, authPc, refreshTrips, loginTrips,
                        refreshSubmitted, started, sawRunning>>
    ELSE /\ IF JoinsInFlight(c)
            THEN /\ waitsOn' = [waitsOn EXCEPT ![r] = authPromise[c]]
                 /\ UNCHANGED <<authCalls, authPromise, authPc, refreshTrips, loginTrips,
                                refreshSubmitted>>
            ELSE BeginAuthenticate(c, r)
         /\ pc' = [pc EXCEPT ![r] = "awaitAuth"]
         /\ started' = [started EXCEPT ![r] = IF JoinsInFlight(c) THEN @ ELSE @ + 1]
         /\ sawRunning' = [sawRunning EXCEPT ![r] = Append(@, Running(c) /= {})]

\* ensureAuthenticated(), called by r: join the authentication in flight, or
\* start one; either way r waits for it to settle.
EnsureAuthenticated(c, r) ==
    /\ IF JoinsInFlight(c)
       THEN /\ waitsOn' = [waitsOn EXCEPT ![r] = authPromise[c]]
            /\ UNCHANGED <<authCalls, authPromise, authPc, refreshTrips, loginTrips,
                           refreshSubmitted>>
       ELSE BeginAuthenticate(c, r)
    /\ pc' = [pc EXCEPT ![r] = "awaitAuth"]
    /\ started' = [started EXCEPT ![r] = IF JoinsInFlight(c) THEN @ ELSE @ + 1]
    /\ sawRunning' = [sawRunning EXCEPT ![r] = Append(@, Running(c) /= {})]

\* Mutant: a failed authentication ends the waiting request.
ResumePcSurfacing(k, outcome) ==
    IF outcome = "ok"
    THEN (IF k = "login" THEN "done" ELSE "ready")
    ELSE "failed"

\* Mutant: a failed authentication is what the waiting request raises.
ResumeResultSurfacing(k, outcome) ==
    IF outcome = "ok"
    THEN (IF k = "login" THEN Value ELSE NoResult)
    ELSE Raised("AuthenticationFailed", NoError)

\* Mutant: a request waiting on an authentication that fails is not resumed.
ResumePcOnSuccessOnly(k, outcome) ==
    IF k = "login"
    THEN (IF outcome = "ok" THEN "done" ELSE "failed")
    ELSE (IF outcome = "ok" THEN "ready" ELSE "awaitAuth")

\* What a caller waiting on the shared authentication does when it settles.
\* A wrapped request is re-invoked whatever the outcome: an error of the
\* error-handling step is not surfaced.  login() returns or raises the outcome.
ResumePc(k, outcome) ==
    IF k = "login"
    THEN (IF outcome = "ok" THEN "done" ELSE "failed")
    ELSE "ready"

ResumeResult(k, outcome) ==
    IF k = "login"
    THEN (IF outcome = "ok" THEN Value ELSE Raised("AuthenticationFailed", NoError))
    ELSE NoResult

\* Mutant: only the caller that started the authentication is resumed by it.
WaitsInitiatorOnly(r, r0) == pc[r] = "awaitAuth" /\ waitsOn[r] = r0 /\ r = r0

\* TRUE when r waits on the authenticate() invocation made by r0.
Waits(r, r0) == pc[r] = "awaitAuth" /\ waitsOn[r] = r0

\* Mutant: the marker is left in place when the authentication settles.
SettleLeavingMarker(r0, outcome) ==
    /\ UNCHANGED authPromise
    /\ authPc' = [authPc EXCEPT ![r0] = "idle"]
    /\ refreshed' = [refreshed EXCEPT ![r0] = 0]
    /\ pc' = [r \in Callers |-> IF Waits(r, r0) THEN ResumePc(kind[r], outcome) ELSE pc[r]]
    /\ result' = [r \in Callers |->
                    IF Waits(r, r0) THEN ResumeResult(kind[r], outcome) ELSE result[r]]
    /\ awaited' = [r \in Callers |->
                    IF Waits(r, r0) THEN Append(awaited[r], outcome) ELSE awaited[r]]
    /\ waitsOn' = [r \in Callers |-> IF Waits(r, r0) THEN 0 ELSE waitsOn[r]]

\* Mutant: the marker is cleared when the authentication succeeds only.
SettleKeepingMarkerOnFailure(r0, outcome) ==
    /\ authPromise' = [authPromise EXCEPT ![owner[r0]] = IF outcome = "ok" THEN 0 ELSE @]
    /\ authPc' = [authPc EXCEPT ![r0] = "idle"]
    /\ refreshed' = [refreshed EXCEPT ![r0] = 0]
    /\ pc' = [r \in Callers |-> IF Waits(r, r0) THEN ResumePc(kind[r], outcome) ELSE pc[r]]
    /\ result' = [r \in Callers |->
                    IF Waits(r, r0) THEN ResumeResult(kind[r], outcome) ELSE result[r]]
    /\ awaited' = [r \in Callers |->
                    IF Waits(r, r0) THEN Append(awaited[r], outcome) ELSE awaited[r]]
    /\ waitsOn' = [r \in Callers |-> IF Waits(r, r0) THEN 0 ELSE waitsOn[r]]

\* The authenticate() invocation made by r0 settles: the marker is cleared and
\* every caller waiting on it receives the outcome.
Settle(r0, outcome) ==
    /\ authPromise' = [authPromise EXCEPT ![owner[r0]] = 0]
    /\ authPc' = [authPc EXCEPT ![r0] = "idle"]
    /\ refreshed' = [refreshed EXCEPT ![r0] = 0]
    /\ pc' = [r \in Callers |-> IF Waits(r, r0) THEN ResumePc(kind[r], outcome) ELSE pc[r]]
    /\ result' = [r \in Callers |->
                    IF Waits(r, r0) THEN ResumeResult(kind[r], outcome) ELSE result[r]]
    /\ awaited' = [r \in Callers |->
                    IF Waits(r, r0) THEN Append(awaited[r], outcome) ELSE awaited[r]]
    /\ waitsOn' = [r \in Callers |-> IF Waits(r, r0) THEN 0 ELSE waitsOn[r]]

\* Mutant: only the access token of a new pair is stored.
SetTokensBearerOnly(c, pair) ==
    /\ token' = [token EXCEPT ![c] = pair]
    /\ UNCHANGED refresh_token

\* Mutant: a new pair is stored in every client of the process.
SetTokensProcessWide(c, pair) ==
    /\ token' = [d \in Clients |-> pair]
    /\ refresh_token' = [d \in Clients |-> pair]

\* Set new tokens: the bearer header and the refresh token, from one response.
SetTokens(c, pair) ==
    /\ token' = [token EXCEPT ![c] = pair]
    /\ refresh_token' = [refresh_token EXCEPT ![c] = pair]

\* ------------------------------------------------------------ authenticate()
\* Mutant: a failed refresh is the outcome of authenticate(), no login is sent.
RefreshAnswerSurfacing(r, ok) ==
    LET c == owner[r]
    IN  /\ authPc[r] = "refresh"
        /\ refreshSubmitted' = [refreshSubmitted EXCEPT ![c] = 0]
        /\ IF ok
           THEN /\ issued' = issued + 1
                /\ refreshed' = [refreshed EXCEPT ![r] = issued + 1]
                /\ authPc' = [authPc EXCEPT ![r] = "status"]
                /\ statusTrips' = [statusTrips EXCEPT ![c] = @ + 1]
                /\ UNCHANGED <<faults, authPromise, pc, result, awaited, waitsOn>>
           ELSE /\ Fault
                /\ Settle(r, "fail")
                /\ UNCHANGED <<issued, statusTrips>>
        /\ UNCHANGED <<claimVars, backend, authProbed, loginRejected, token, refresh_token, authCalls, refreshTrips, loginTrips>>
        /\ UNCHANGED <<kind, owner, calls, bearer, lastErr, resps, started, sawRunning, probed, handlerErrs>>

\* Mutant: a failed refresh clears the stored refresh token.
RefreshAnswerClearing(r, ok) ==
    LET c == owner[r]
    IN  /\ authPc[r] = "refresh"
        /\ refreshSubmitted' = [refreshSubmitted EXCEPT ![c] = 0]
        /\ IF ok
           THEN /\ issued' = issued + 1
                /\ refreshed' = [refreshed EXCEPT ![r] = issued + 1]
                /\ authPc' = [authPc EXCEPT ![r] = "status"]
                /\ statusTrips' = [statusTrips EXCEPT ![c] = @ + 1]
                /\ UNCHANGED <<loginTrips, faults, refresh_token>>
           ELSE /\ Fault
                /\ authPc' = [authPc EXCEPT ![r] = "login"]
                /\ loginTrips' = [loginTrips EXCEPT ![c] = @ + 1]
                /\ refresh_token' = [refresh_token EXCEPT ![c] = 0]
                /\ UNCHANGED <<issued, refreshed, statusTrips>>
        /\ UNCHANGED <<claimVars, backend, authProbed, loginRejected, token, authPromise, authCalls, refreshTrips>>
        /\ UNCHANGED <<kind, owner, pc, calls, bearer, result, lastErr, resps,
                       waitsOn, awaited, started, sawRunning, probed, handlerErrs>>

\* Mutant: a failed refresh round trip is sent again, as a retryable call is.
RefreshAnswerRetrying(r, ok) ==
    LET c == owner[r]
    IN  /\ authPc[r] = "refresh"
        /\ IF ok
           THEN /\ issued' = issued + 1
                /\ refreshed' = [refreshed EXCEPT ![r] = issued + 1]
                /\ authPc' = [authPc EXCEPT ![r] = "status"]
                /\ statusTrips' = [statusTrips EXCEPT ![c] = @ + 1]
                /\ refreshSubmitted' = [refreshSubmitted EXCEPT ![c] = 0]
                /\ UNCHANGED <<refreshTrips, faults>>
           ELSE /\ Fault
                /\ refreshTrips' = [refreshTrips EXCEPT ![c] = @ + 1]
                /\ UNCHANGED <<issued, refreshed, statusTrips, authPc, refreshSubmitted>>
        /\ UNCHANGED <<claimVars, backend, authProbed, loginRejected, token, refresh_token, authPromise,
                       authCalls, loginTrips>>
        /\ UNCHANGED <<kind, owner, pc, calls, bearer, result, lastErr, resps,
                       waitsOn, awaited, started, sawRunning, probed, handlerErrs>>

\* Mutant: a successful refresh resolves without the pair it was answered.
RefreshAnswerUnresolved(r, ok) ==
    LET c == owner[r]
    IN  /\ authPc[r] = "refresh"
        /\ refreshSubmitted' = [refreshSubmitted EXCEPT ![c] = 0]
        /\ IF ok
           THEN /\ issued' = issued + 1
                /\ authPc' = [authPc EXCEPT ![r] = "status"]
                /\ statusTrips' = [statusTrips EXCEPT ![c] = @ + 1]
                /\ UNCHANGED <<loginTrips, faults, refreshed>>
           ELSE /\ Fault
                /\ authPc' = [authPc EXCEPT ![r] = "login"]
                /\ loginTrips' = [loginTrips EXCEPT ![c] = @ + 1]
                /\ UNCHANGED <<issued, refreshed, statusTrips>>
        /\ UNCHANGED <<claimVars, backend, authProbed, loginRejected, token, refresh_token, authPromise, authCalls, refreshTrips>>
        /\ UNCHANGED <<kind, owner, pc, calls, bearer, result, lastErr, resps,
                       waitsOn, awaited, started, sawRunning, probed, handlerErrs>>

\* The refresh round trip of r's authenticate() answers.  Success: the status
\* probe is sent.  Failure: fall back to login.
RefreshAnswer(r, ok) ==
    LET c == owner[r]
    IN  /\ authPc[r] = "refresh"
        /\ refreshSubmitted' = [refreshSubmitted EXCEPT ![c] = 0]
        /\ IF ok
           THEN /\ issued' = issued + 1
                /\ refreshed' = [refreshed EXCEPT ![r] = issued + 1]
                /\ authPc' = [authPc EXCEPT ![r] = "status"]
                /\ statusTrips' = [statusTrips EXCEPT ![c] = @ + 1]
                /\ UNCHANGED <<loginTrips, faults>>
           ELSE /\ Fault
                /\ authPc' = [authPc EXCEPT ![r] = "login"]
                /\ loginTrips' = [loginTrips EXCEPT ![c] = @ + 1]
                /\ UNCHANGED <<issued, refreshed, statusTrips>>
        /\ UNCHANGED <<claimVars, backend, authProbed, loginRejected, token, refresh_token, authPromise, authCalls, refreshTrips>>
        /\ UNCHANGED <<kind, owner, pc, calls, bearer, result, lastErr, resps,
                       waitsOn, awaited, started, sawRunning, probed, handlerErrs>>

\* Mutant: after a successful refresh the answer of the status probe is not
\* looked at, authenticate() succeeds without login.
StatusAnswerTrusting(r, a) ==
    LET c == owner[r]
    IN  /\ authPc[r] = "status"
        /\ authProbed' = [authProbed EXCEPT ![c] = a]
        /\ SetTokens(c, refreshed[r])
        /\ Settle(r, "ok")
        /\ UNCHANGED <<loginTrips, faults>>
        /\ UNCHANGED <<claimVars, backend, refreshSubmitted, loginRejected, issued, authCalls, refreshTrips, statusTrips>>
        /\ UNCHANGED <<kind, owner, calls, bearer, lastErr, resps, started, sawRunning, probed, handlerErrs>>

\* The status probe after a successful refresh answers.
StatusAnswer(r, a) ==
    LET c == owner[r]
    IN  /\ authPc[r] = "status"
        /\ authProbed' = [authProbed EXCEPT ![c] = a]
        /\ IF IsAuthenticatedResult(a)
           THEN /\ SetTokens(c, refreshed[r])
                /\ Settle(r, "ok")
                /\ UNCHANGED <<loginTrips, faults>>
           ELSE /\ Fault
                /\ authPc' = [authPc EXCEPT ![r] = "login"]
                /\ loginTrips' = [loginTrips EXCEPT ![c] = @ + 1]
                /\ UNCHANGED <<token, refresh_token, authPromise, refreshed, pc, result,
                               awaited, waitsOn>>
        /\ UNCHANGED <<claimVars, backend, refreshSubmitted, loginRejected, issued, authCalls, refreshTrips, statusTrips>>
        /\ UNCHANGED <<kind, owner, calls, bearer, lastErr, resps, started, sawRunning, probed, handlerErrs>>

\* Mutant: a rejected login is sent again instead of failing authenticate().
LoginAnswerRetrying(r, ok) ==
    LET c == owner[r]
    IN  /\ authPc[r] = "login"
        /\ authProbed' = [authProbed EXCEPT ![c] = "none"]
        /\ IF ok
           THEN /\ issued' = issued + 1
                /\ SetTokens(c, issued + 1)
                /\ Settle(r, "ok")
                /\ UNCHANGED <<faults, loginRejected, loginTrips>>
           ELSE /\ Fault
                /\ loginRejected' = [loginRejected EXCEPT ![c] = @ + 1]
                /\ loginTrips' = [loginTrips EXCEPT ![c] = @ + 1]
                /\ UNCHANGED <<issued, token, refresh_token, authPromise, authPc, refreshed,
                               pc, result, awaited, waitsOn>>
        /\ UNCHANGED <<claimVars, backend, refreshSubmitted, authCalls, refreshTrips, statusTrips>>
        /\ UNCHANGED <<kind, owner, calls, bearer, lastErr, resps, started, sawRunning, probed, handlerErrs>>

\* The login round trip answers.
LoginAnswer(r, ok) ==
    LET c == owner[r]
    IN  /\ authPc[r] = "login"
        /\ authProbed' = [authProbed EXCEPT ![c] = "none"]
        /\ IF ok
           THEN /\ issued' = issued + 1
                /\ SetTokens(c, issued + 1)
                /\ Settle(r, "ok")
                /\ UNCHANGED <<faults, loginRejected>>
           ELSE /\ Fault
                /\ loginRejected' = [loginRejected EXCEPT ![c] = @ + 1]
                /\ Settle(r, "fail")
                /\ UNCHANGED <<issued, token, refresh_token>>
        /\ UNCHANGED <<claimVars, backend, refreshSubmitted, authCalls, loginTrips, refreshTrips, statusTrips>>
        /\ UNCHANGED <<kind, owner, calls, bearer, lastErr, resps, started, sawRunning, probed, handlerErrs>>

\* ------------------------------------------------------- makeRetryRequest()
\* Mutant: a repeated attempt carries the bearer of the first attempt.
InvokeFirstBearer(r, c) ==
    /\ pc' = [pc EXCEPT ![r] = "inflight"]
    /\ calls' = [calls EXCEPT ![r] = @ + 1]
    /\ bearer' = [bearer EXCEPT ![r] = IF calls[r] = 0 THEN token[c] ELSE @]

\* Callers are interchangeable and so are client instances: the callers make
\* their calls in the order of their numbers, and a caller calls a client that
\* was called before or the first one that was not.
MayCall(b, r, c, k) ==
    /\ \A q \in Callers : q < r => pc[q] /= "new"
    /\ \A d \in Clients : d < c => \E q \in Callers : pc[q] /= "new" /\ owner[q] = d
    /\ IF b = "single" THEN r = 1 ELSE k \in {"request", "login"}

\* One invocation of requestFn: the outbound call carries the current bearer.
Invoke(r, c) ==
    /\ pc' = [pc EXCEPT ![r] = "inflight"]
    /\ calls' = [calls EXCEPT ![r] = @ + 1]
    /\ bearer' = [bearer EXCEPT ![r] = token[c]]

\* Mutant: a call on a client without a token authenticates before its first
\* attempt.
ExecuteAuthenticatingFirst(r, c, k) ==
    /\ pc[r] = "new"
    /\ MayCall(backend, r, c, k)
    /\ kind' = [kind EXCEPT ![r] = k]
    /\ owner' = [owner EXCEPT ![r] = c]
    /\ IF token[c] = 0 /\ k = "request"
       THEN /\ EnsureAuthenticated(c, r)
            /\ UNCHANGED <<calls, bearer>>
       ELSE /\ Invoke(r, c)
            /\ UNCHANGED <<authPc, waitsOn, started, sawRunning, authPromise, authCalls,
                           loginTrips, refreshTrips, refreshSubmitted>>
    /\ UNCHANGED <<result, lastErr, resps, refreshed, awaited, probed, handlerErrs>>
    /\ UNCHANGED <<claimVars, backend, token, refresh_token, issued, faults, loginRejected,
                   statusTrips, authProbed>>

\* execute(requestFn) is called: the first attempt is made.
Execute(r, c, k) ==
    /\ pc[r] = "new"
    /\ MayCall(backend, r, c, k)
    /\ kind' = [kind EXCEPT ![r] = k]
    /\ owner' = [owner EXCEPT ![r] = c]
    /\ Invoke(r, c)
    /\ UNCHANGED <<result, lastErr, resps, authPc, refreshed, waitsOn, awaited,
                   started, sawRunning, probed, handlerErrs>>
    /\ UNCHANGED <<clientVars, claimVars>>

\* A repeated attempt.
Attempt(r) ==
    /\ pc[r] = "ready"
    /\ Invoke(r, owner[r])
    /\ UNCHANGED <<kind, owner, result, lastErr, resps, authPc, refreshed, waitsOn,
                   awaited, started, sawRunning, probed, handlerErrs>>
    /\ UNCHANGED <<clientVars, claimVars>>

\* The error a Fail decision raises.
FailWith(isAuthEndpoint, err) ==
    IF ~isAuthEndpoint /\ err.k = "status"
    THEN Raised("NonRetryableRequestError", err)
    ELSE Raised("error", err)

\* Mutant: the first success of a call is not returned, requestFn is invoked
\* once more.
RespondOkRepeating(r) ==
    /\ pc[r] = "inflight"
    /\ pc' = [pc EXCEPT ![r] = IF calls[r] = 1 THEN "ready" ELSE "done"]
    /\ result' = [result EXCEPT ![r] = IF calls[r] = 1 THEN @ ELSE Value]
    /\ lastErr' = [lastErr EXCEPT ![r] = NoError]
    /\ resps' = [resps EXCEPT ![r] = Append(@, "ok")]
    /\ UNCHANGED <<kind, owner, calls, bearer, authPc, refreshed, waitsOn, awaited,
                   started, sawRunning, probed, handlerErrs>>
    /\ UNCHANGED <<clientVars, claimVars>>

\* The attempt succeeds: its value is returned.
RespondOk(r) ==
    /\ pc[r] = "inflight"
    /\ pc' = [pc EXCEPT ![r] = "done"]
    /\ result' = [result EXCEPT ![r] = Value]
    /\ lastErr' = [lastErr EXCEPT ![r] = NoError]
    /\ resps' = [resps EXCEPT ![r] = Append(@, "ok")]
    /\ UNCHANGED <<kind, owner, calls, bearer, authPc, refreshed, waitsOn, awaited,
                   started, sawRunning, probed, handlerErrs>>
    /\ UNCHANGED <<clientVars, claimVars>>

NoAuthentication ==
    UNCHANGED <<authCalls, authPromise, authPc, refreshTrips, loginTrips, waitsOn,
                started, sawRunning, refreshSubmitted>>

\* Mutant: no ceiling on the attempts of a call.
ExhaustedNever(n) == FALSE

\* TRUE when n invocations of requestFn have used up the attempts of a call.
Exhausted(n) == n >= MaxAttempts

\* Whether handleRequestError() may throw on its own while it processes a
\* failure decided d: explored for the failures that are retried, in a
\* single-call run.
HandlerOutcomes(b, d) == IF b = "single" /\ d = "Retry" THEN BOOLEAN ELSE {FALSE}

\* Mutant: an error thrown by handleRequestError() ends the call.
AfterHandlerSurfacing(d, thrown) == IF thrown THEN "Fail" ELSE d

\* The decision that stands after handleRequestError() ran: an error it throws
\* is caught and changes nothing.
AfterHandler(d, thrown) == d

\* The attempt fails with err: classify, then fail, retry or re-authenticate.
\* thrown tells whether handleRequestError() throws on its own.
RespondError(r, err, thrown) ==
    LET c == owner[r]
        isAuthEndpoint == kind[r] = "authRequest"
        d == AfterHandler(Classify(isAuthEndpoint, err), thrown)
    IN  /\ pc[r] = "inflight"
        /\ thrown \in HandlerOutcomes(backend, Classify(isAuthEndpoint, err))
        /\ Fault
        /\ lastErr' = [lastErr EXCEPT ![r] = err]
        /\ resps' = [resps EXCEPT ![r] = Append(@, d)]
        /\ handlerErrs' = [handlerErrs EXCEPT ![r] = IF thrown THEN @ + 1 ELSE @]
        /\ IF d = "Fail"
           THEN /\ pc' = [pc EXCEPT ![r] = "failed"]
                /\ result' = [result EXCEPT ![r] = FailWith(isAuthEndpoint, err)]
                /\ NoAuthentication
           ELSE IF Exhausted(calls[r])
           THEN /\ pc' = [pc EXCEPT ![r] = "failed"]
                /\ result' = [result EXCEPT ![r] = Raised("RetryExhausted", NoError)]
                /\ NoAuthentication
           ELSE IF d = "Retry"
           THEN /\ pc' = [pc EXCEPT ![r] = "ready"]
                /\ NoAuthentication
                /\ UNCHANGED result
           ELSE /\ EnsureAuthenticated(c, r)
                /\ UNCHANGED result
        /\ UNCHANGED <<kind, owner, calls, bearer, refreshed, awaited, probed>>
        /\ UNCHANGED <<claimVars, backend, authProbed, loginRejected, token, refresh_token, issued, statusTrips>>

\* ------------------------------------------------ login(), isAuthenticated()
\* login() or isAuthenticated() is called: the status probe is sent.
Probe(r, c, k) ==
    /\ pc[r] = "new"
    /\ MayCall(backend, r, c, k)
    /\ kind' = [kind EXCEPT ![r] = k]
    /\ owner' = [owner EXCEPT ![r] = c]
    /\ pc' = [pc EXCEPT ![r] = "probe"]
    /\ statusTrips' = [statusTrips EXCEPT ![c] = @ + 1]
    /\ UNCHANGED <<calls, bearer, result, lastErr, resps, authPc, refreshed, waitsOn,
                   awaited, started, sawRunning, probed, handlerErrs>>
    /\ UNCHANGED <<claimVars, backend, authProbed, refreshSubmitted, loginRejected, token, refresh_token, authPromise, issued, faults,
                   authCalls, loginTrips, refreshTrips>>

\* Mutant: login() authenticates whatever the probe reports.
ProbeAnswerAlwaysAuthenticates(r, a) ==
    LET c == owner[r]
    IN  /\ pc[r] = "probe"
        /\ probed' = [probed EXCEPT ![r] = a]
        /\ IF kind[r] = "isAuthenticated"
           THEN /\ pc' = [pc EXCEPT ![r] = "done"]
                /\ result' = [result EXCEPT ![r] =
                                 Raised(IF IsAuthenticatedResult(a) THEN "true" ELSE "false", NoError)]
                /\ NoAuthentication
           ELSE /\ EnsureAuthenticated(c, r)
                /\ UNCHANGED result
        /\ UNCHANGED <<kind, owner, calls, bearer, lastErr, resps, refreshed, awaited, handlerErrs>>
        /\ UNCHANGED <<claimVars, backend, authProbed, loginRejected, token, refresh_token, issued, faults, statusTrips>>

\* The probe answers.  isAuthenticated() returns the verdict; login() returns
\* when authenticated and otherwise needs authentication.
ProbeAnswer(r, a) ==
    LET c == owner[r]
    IN  /\ pc[r] = "probe"
        /\ probed' = [probed EXCEPT ![r] = a]
        /\ IF kind[r] = "isAuthenticated"
           THEN /\ pc' = [pc EXCEPT ![r] = "done"]
                /\ result' = [result EXCEPT ![r] =
                                 Raised(IF IsAuthenticatedResult(a) THEN "true" ELSE "false", NoError)]
                /\ NoAuthentication
           ELSE IF IsAuthenticatedResult(a)
           THEN /\ pc' = [pc EXCEPT ![r] = "done"]
                /\ result' = [result EXCEPT ![r] = Value]
                /\ NoAuthentication
           ELSE /\ EnsureAuthenticated(c, r)
                /\ UNCHANGED result
        /\ UNCHANGED <<kind, owner, calls, bearer, lastErr, resps, refreshed, awaited, handlerErrs>>
        /\ UNCHANGED <<claimVars, backend, authProbed, loginRejected, token, refresh_token, issued, faults, statusTrips>>

Next ==
    \/ \E r \in Callers, c \in Clients, k \in {"request", "authRequest"} : Execute(r, c, k)
    \/ \E r \in Callers, c \in Clients, k \in {"login", "isAuthenticated"} : Probe(r, c, k)
    \/ \E r \in Callers : Attempt(r)
    \/ \E r \in Callers : RespondOk(r)
    \/ \E r \in Callers, e \in Errors(backend), thrown \in BOOLEAN : RespondError(r, e, thrown)
    \/ \E r \in Callers, a \in Answers(backend) : ProbeAnswer(r, a)
    \/ \E r \in Callers, ok \in BOOLEAN : RefreshAnswer(r, ok)
    \/ \E r \in Callers, a \in Answers(backend) : StatusAnswer(r, a)
    \/ \E r \in Callers, ok \in BOOLEAN : LoginAnswer(r, ok)

Spec == Init /\ [][Next]_vars

\* readyToBeRegisteredOnchain(claim) is called.
CallReadyToBeRegisteredOnchain ==
    /\ returned = <<>>
    /\ returned' = <<readyToBeRegisteredOnchain(claim)>>
    /\ UNCHANGED <<claim, clientVars, callerVars>>

\* A claim is given and checked, on a client nothing is called on.
ClaimInit ==
    /\ backend = "single"
    /\ Constructed
    /\ claim \in Claims
    /\ returned = <<>>

ClaimNext == CallReadyToBeRegisteredOnchain

ClaimSpec == ClaimInit /\ [][ClaimNext]_vars

\* The steps of caller r that wait on nothing but the event loop or the answer
\* of a round trip already sent: its repeated attempt, and the answers to its
\* attempt, to its probe and to the round trips of its authenticate().
Progress(r) ==
    \/ Attempt(r)
    \/ RespondOk(r)
    \/ \E e \in Errors(backend), thrown \in BOOLEAN : RespondError(r, e, thrown)
    \/ \E a \in Answers(backend) : ProbeAnswer(r, a)
    \/ \E ok \in BOOLEAN : RefreshAnswer(r, ok)
    \/ \E a \in Answers(backend) : StatusAnswer(r, a)
    \/ \E ok \in BOOLEAN : LoginAnswer(r, ok)

\* Every round trip sent is eventually answered (each has its own timeout) and
\* every continuation that is ready is eventually run.
FairSpec == Spec /\ \A r \in Callers : WF_vars(Progress(r))

First401(c) ==
    {r \in Callers : /\ kind[r] = "request" /\ owner[r] = c
                     /\ Len(resps[r]) >= 1 /\ resps[r][1] = "ReauthenticateThenRetry"}

\* Client c has seen N >= 2 requests answered 401 on their first attempt, all
\* but the first of them while an authentication was running, and no other
\* need of authentication.
Concurrent401s(c) ==
    /\ Cardinality(First401(c)) >= 2
    /\ \A r \in First401(c) : Len(sawRunning[r]) = 1
    /\ Cardinality({r \in First401(c) : ~sawRunning[r][1]}) = 1
    /\ \A r \in Callers :
          (owner[r] = c /\ kind[r] /= "none" /\ r \notin First401(c)) => sawRunning[r] = <<>>

\* C2: when N concurrent requests each get 401 on their first attempt while one
\* authentication is running, authenticate() is invoked once in total, and each
\* request whose authentication succeeded and whose next attempt got 200
\* returns the success value after exactly two invocations of requestFn.
C2_OneAuthenticationForAll ==
    \A c \in Clients :
        Concurrent401s(c) =>
            /\ authCalls[c] = 1
            /\ \A r \in First401(c) :
                  (awaited[r] = <<"ok">> /\ Len(resps[r]) = 2 /\ resps[r][2] = "ok")
                      => (pc[r] = "done" /\ result[r] = Value /\ calls[r] = 2)

\* Two requests got 401 concurrently and both returned the value.
C2_Witness ==
    \E c \in Clients :
        /\ Concurrent401s(c)
        /\ authCalls[c] = 1
        /\ \A r \in First401(c) : pc[r] = "done" /\ result[r] = Value /\ calls[r] = 2

\* ================================================ failed re-authentication
\* TRUE when one of the authentications r waited on failed.
AwaitedFailure(r) == \E i \in 1..Len(awaited[r]) : awaited[r][i] = "fail"

Answered(r) == pc[r] = "inflight" /\ pc'[r] /= "inflight"

\* TRUE when r is the only caller of its client.
Alone(r) == \A q \in Callers : q = r \/ kind[q] = "none" \/ owner[q] /= owner[r]

\* C5: after a 401 on a non-auth wrapped call, requestFn is not invoked again
\* before an authentication (started by the call or joined) has settled; a
\* single request seeing 401 then 200 invokes authenticate() once and
\* requestFn twice.
C5_ReauthenticateBeforeRetry ==
    /\ [](\A r \in Callers :
             (kind[r] = "request" /\ pc[r] /= "awaitAuth")
                 => Len(awaited[r]) = Len(sawRunning[r]))
    /\ [][\A r \in Callers :
             (/\ kind[r] = "request" /\ Answered(r)
              /\ lastErr'[r] = StatusError(401) /\ calls[r] < MaxAttempts)
                 => /\ pc'[r] = "awaitAuth"
                    /\ Len(sawRunning'[r]) = Len(sawRunning[r]) + 1
                    /\ \E q \in Callers : owner'[q] = owner[r] /\ authPc'[q] /= "idle"]_vars
    /\ [](\A r \in Callers :
             (/\ kind[r] = "request" /\ Alone(r)
              /\ Len(sawRunning[r]) = 1 /\ Len(resps[r]) = 2 /\ resps[r][2] = "ok")
                 => /\ authCalls[owner[r]] = 1
                    /\ calls[r] = 2
                    /\ pc[r] = "done" /\ result[r] = Value)

\* A single request saw 401, then 200.
C5_Witness ==
    \E r \in Callers :
        /\ kind[r] = "request" /\ Alone(r)
        /\ Len(sawRunning[r]) = 1 /\ Len(awaited[r]) = 1
        /\ Len(resps[r]) = 2 /\ resps[r][2] = "ok"
        /\ authCalls[owner[r]] = 1 /\ calls[r] = 2 /\ pc[r] = "done"

\* ============================================================== classifier
\* The parts of the client a retry or a failure leaves alone.
AuthenticationUntouched ==
    UNCHANGED <<token, refresh_token, authPromise, authCalls, authPc, loginTrips,
                refreshTrips, started, sawRunning>>

\* C6: a non-auth request failing with a status in {408, 411, 412, 425, 426,
\* 500, 501, 502, 503, 504, 505, 506, 510, 511} is made ready to be re-invoked
\* (below the attempt ceiling) with no authentication started and the stored
\* credentials unchanged, and returns the value when the next attempt succeeds.
C6_RetryableStatusRetried ==
    /\ [][\A r \in Callers :
             (/\ kind[r] = "request" /\ Answered(r)
              /\ lastErr'[r].k = "status"
              /\ lastErr'[r].code \in {408, 411, 412, 425, 426, 500, 501, 502, 503,
                                       504, 505, 506, 510, 511})
                 => /\ AuthenticationUntouched
                    /\ calls[r] < MaxAttempts => (pc'[r] = "ready" /\ result'[r] = NoResult)]_vars
    /\ [][\A r \in Callers :
             (/\ kind[r] = "request" /\ Answered(r)
              /\ lastErr[r].k = "status" /\ lastErr[r].code \in RetryableStatuses
              /\ lastErr'[r] = NoError)
                 => (pc'[r] = "done" /\ result'[r] = Value)]_vars

\* A request was answered 408 and, with no authentication, invoked again.
C6_Witness ==
    \E r \in Callers :
        /\ kind[r] = "request" /\ lastErr[r] = StatusError(408)
        /\ pc[r] = "inflight" /\ calls[r] = 2
        /\ sawRunning[r] = <<>> /\ authCalls[owner[r]] = 0

\* C7: a non-auth request whose first attempt fails with a 4xx/5xx status that
\* is neither 401 nor retryable is never retried: one invocation of requestFn,
\* no authentication, and NonRetryableRequestError carrying the original error.
C7_NonRetryableFailsAtOnce ==
    \A r \in Callers :
        (/\ kind[r] = "request" /\ Len(resps[r]) = 1
         /\ lastErr[r].k = "status" /\ lastErr[r].code >= 400
         /\ lastErr[r].code \notin {401, 408, 411, 412, 425, 426, 500, 501, 502, 503,
                                    504, 505, 506, 510, 511})
            => /\ pc[r] = "failed"
               /\ calls[r] = 1
               /\ result[r] = [type |-> "NonRetryableRequestError", err |-> lastErr[r]]
               /\ started[r] = 0 /\ sawRunning[r] = <<>>

\* A request failed at once with 429.
C7_Witness ==
    \E r \in Callers :
        /\ kind[r] = "request" /\ lastErr[r] = StatusError(429)
        /\ pc[r] = "failed" /\ calls[r] = 1

\* C8: a non-auth request failing with a transport-level error is made ready
\* to be re-invoked (below the attempt ceiling) with no authentication started,
\* and returns the value when the next attempt succeeds.
C8_TransportErrorRetried ==
    /\ [][\A r \in Callers :
             (kind[r] = "request" /\ Answered(r) /\ lastErr'[r].k = "transport")
                 => /\ AuthenticationUntouched
                    /\ calls[r] < MaxAttempts => (pc'[r] = "ready" /\ result'[r] = NoResult)]_vars
    /\ [][\A r \in Callers :
             (/\ kind[r] = "request" /\ Answered(r)
              /\ lastErr[r].k = "transport" /\ lastErr'[r] = NoError)
                 => (pc'[r] = "done" /\ result'[r] = Value)]_vars

\* A request met a transport error first and returned the value on its second
\* attempt, with no authentication.
C8_Witness ==
    \E r \in Callers :
        /\ kind[r] = "request" /\ resps[r] = <<"Retry", "ok">>
        /\ backend = "single"
        /\ pc[r] = "done" /\ calls[r] = 2 /\ faults = 1
        /\ sawRunning[r] = <<>> /\ authCalls[owner[r]] = 0

\* C9: a call that targeted an auth endpoint fails on any error, 401 and
\* retryable statuses included: one invocation of requestFn, no
\* authentication, and the error itself is raised.
C9_AuthEndpointNeverRetried ==
    /\ \A e \in Errors(backend) : Classify(TRUE, e) = "Fail"
    /\ \A r \in Callers :
          kind[r] = "authRequest" =>
              /\ calls[r] <= 1
              /\ started[r] = 0 /\ sawRunning[r] = <<>>
              /\ lastErr[r] /= NoError
                    => /\ pc[r] = "failed"
                       /\ result[r] = [type |-> "error", err |-> lastErr[r]]

\* A call to an auth endpoint failed with 401.
C9_Witness ==
    \E r \in Callers :
        /\ kind[r] = "authRequest" /\ lastErr[r] = StatusError(401)
        /\ pc[r] = "failed" /\ calls[r] = 1

\* C10: an error thrown by requestFn after a successful transport response is
\* not retried: the original error is raised, and when it is the first
\* response requestFn was invoked exactly once.
C10_HandlerErrorFails ==
    \A r \in Callers :
        (kind[r] \in {"request", "authRequest"} /\ lastErr[r] = HandlerError)
            => /\ pc[r] = "failed"
               /\ result[r] = [type |-> "error", err |-> HandlerError]
               /\ calls[r] = Len(resps[r])
               /\ sawRunning[r] = <<>> => started[r] = 0

\* A request failed on its first response with the handler's error.
C10_Witness ==
    \E r \in Callers :
        /\ kind[r] = "request" /\ lastErr[r] = HandlerError
        /\ pc[r] = "failed" /\ calls[r] = 1 /\ Len(resps[r]) = 1

\* ============================================================ authenticate()
Last(s) == s[Len(s)]

\* TRUE in a step in which the authenticate() invocation made by r starts.
Begins(r) == authPc[r] = "idle" /\ authPc'[r] /= "idle"

\* TRUE in a step in which the authenticate() invocation made by r sends its
\* login round trip.
LoginSent(r) == authPc[r] /= "login" /\ authPc'[r] = "login"

\* TRUE in a step in which the authenticate() invocation made by r settles
\* with the given outcome.
SettlesWith(r, outcome) ==
    /\ authPc[r] /= "idle" /\ authPc'[r] = "idle"
    /\ awaited'[r] = Append(awaited[r], outcome)

\* C11 as stated: with a refresh token present, refresh is tried first and
\* login is invoked only after that refresh has failed; a failed refresh is
\* never the outcome of authenticate() without a login attempt after it.
C11_Original ==
    [][\A r \in Callers :
          /\ (Begins(r) /\ refresh_token[owner[r]] /= 0) => authPc'[r] = "refresh"
          /\ (LoginSent(r) /\ refresh_token[owner[r]] /= 0)
                 => (authPc[r] = "refresh" /\ refreshed[r] = 0 /\ faults' = faults + 1)
          /\ SettlesWith(r, "fail") => authPc[r] = "login"]_vars

\* C11 amended: with a refresh token present, refresh is tried first (one
\* refresh round trip, no login round trip); login is invoked only after that
\* refresh has failed or after the status probe that follows a successful
\* refresh has not named the signer; authenticate() never settles with a
\* failure from anything but its login round trip.
C11_RefreshFirstThenLogin ==
    [][\A r \in Callers :
          /\ (Begins(r) /\ refresh_token[owner[r]] /= 0)
                 => /\ authPc'[r] = "refresh"
                    /\ refreshTrips'[owner[r]] = refreshTrips[owner[r]] + 1
                    /\ loginTrips' = loginTrips
          /\ (LoginSent(r) /\ refresh_token[owner[r]] /= 0)
                 => /\ faults' = faults + 1
                    /\ loginTrips'[owner[r]] = loginTrips[owner[r]] + 1
                    /\ \/ authPc[r] = "refresh" /\ refreshed[r] = 0
                       \/ authPc[r] = "status" /\ refreshed[r] /= 0
          /\ SettlesWith(r, "fail") => authPc[r] = "login"
          /\ (authPc[r] = "refresh" /\ authPc'[r] /= "refresh")
                 => authPc'[r] \in {"status", "login"}]_vars

\* With a refresh token stored, the refresh succeeded, the status probe did
\* not name the signer, and the login round trip is under way.
C11_Witness ==
    \E r \in Callers :
        /\ authPc[r] = "login" /\ refresh_token[owner[r]] /= 0 /\ refreshed[r] /= 0
        /\ refreshTrips[owner[r]] >= 1 /\ statusTrips[owner[r]] >= 1

\* The callers that sent the status probe of login() or isAuthenticated() to c.
Probers(c) == {r \in Callers : owner[r] = c /\ kind[r] \in {"login", "isAuthenticated"}}

\* C12: when no refresh token is stored, authenticate() performs login
\* directly: no refresh round trip and no status probe is made by it, and on
\* login success the store holds the returned token pair.
C12_LoginDirectlyWithoutRefreshToken ==
    /\ [](\A c \in Clients :
             refresh_token[c] = 0
                 => /\ refreshTrips[c] = 0
                    /\ statusTrips[c] = Cardinality(Probers(c))
                    /\ \A r \in Running(c) : authPc[r] = "login" /\ refreshed[r] = 0)
    /\ [][\A r \in Callers :
             /\ (Begins(r) /\ refresh_token[owner[r]] = 0)
                    => /\ authPc'[r] = "login"
                       /\ loginTrips'[owner[r]] = loginTrips[owner[r]] + 1
                       /\ UNCHANGED <<refreshTrips, statusTrips>>
             /\ (SettlesWith(r, "ok") /\ refresh_token[owner[r]] = 0)
                    => /\ issued' = issued + 1
                       /\ token'[owner[r]] = issued'
                       /\ refresh_token'[owner[r]] = issued'
                       /\ UNCHANGED <<loginTrips, refreshTrips, statusTrips>>]_vars

\* A client without a refresh token authenticated by one login round trip and
\* holds the pair that login returned.
C12_Witness ==
    \E c \in Clients :
        /\ token[c] = issued /\ refresh_token[c] = issued /\ issued = 1
        /\ authCalls[c] = 1 /\ loginTrips[c] = 1
        /\ refreshTrips[c] = 0 /\ statusTrips[c] = 0 /\ authPromise[c] = 0

\* C13: authenticate() fails, and the failure reaches its callers, whenever
\* the login round trip it falls through to is rejected or unreachable: the
\* invocation settles at once with a failure for everyone waiting on it
\* (login() raises AuthenticationFailed), having made exactly one login round
\* trip.
C13_LoginFailureFailsAuthenticate ==
    [][\A c \in Clients :
          /\ loginRejected'[c] /= loginRejected[c]
                 => \E r \in Running(c) :
                        /\ authPc[r] = "login"
                        /\ SettlesWith(r, "fail")
                        /\ loginTrips' = loginTrips
                        /\ authPromise'[c] = 0
                        /\ \A q \in Callers :
                               Waits(q, r)
                                   => /\ awaited'[q] = Append(awaited[q], "fail")
                                      /\ kind[q] = "login"
                                             => /\ pc'[q] = "failed"
                                                /\ result'[q] = Raised("AuthenticationFailed", NoError)
          /\ loginTrips'[c] /= loginTrips[c]
                 => /\ loginTrips'[c] = loginTrips[c] + 1
                    /\ \E r \in Callers : owner[r] = c /\ LoginSent(r)]_vars

\* login() raised AuthenticationFailed after the one login round trip of the
\* authentication it started was rejected.
C13_Witness ==
    \E r \in Callers :
        /\ kind[r] = "login" /\ pc[r] = "failed"
        /\ result[r] = Raised("AuthenticationFailed", NoError)
        /\ started[r] = 1 /\ awaited[r] = <<"fail">>
        /\ loginRejected[owner[r]] = 1 /\ loginTrips[owner[r]] = 1

\* ======================================================== credential store
\* The pair a successful settlement of r's authenticate() stores: the one its
\* login returned, or the one its refresh returned.
PairOf(r) == IF authPc[r] = "login" THEN issued' ELSE refreshed[r]

\* C14: the stored access token and refresh token change only as the effect
\* of a successful login or refresh, which stores the returned pair; every
\* failed round trip (refresh, status probe, login, request attempt) and every
\* invocation of requestFn leaves both unchanged, and a failed refresh leaves
\* the refresh token it used in the store.
C14_CredentialsChangeOnlyOnSuccess ==
    /\ [][(token' /= token \/ refresh_token' /= refresh_token)
             => \E r \in Callers :
                    /\ SettlesWith(r, "ok")
                    /\ authPc[r] \in {"login", "status"}
                    /\ PairOf(r) /= 0
                    /\ token' = [token EXCEPT ![owner[r]] = PairOf(r)]
                    /\ refresh_token' = [refresh_token EXCEPT ![owner[r]] = PairOf(r)]]_vars
    /\ [][(faults' /= faults \/ calls' /= calls \/ \E r \in Callers : Answered(r))
             => UNCHANGED <<token, refresh_token>>]_vars
    /\ [](\A r \in Callers :
             (authPc[r] = "login" /\ refreshTrips[owner[r]] > 0) => refresh_token[owner[r]] /= 0)

\* The refresh of a stored refresh token failed; the store still holds the
\* pair it held, and the login round trip is under way.
C14_Witness ==
    \E r \in Callers :
        /\ authPc[r] = "login" /\ refreshed[r] = 0
        /\ refreshTrips[owner[r]] = 1 /\ statusTrips[owner[r]] = 0
        /\ refresh_token[owner[r]] /= 0 /\ token[owner[r]] = refresh_token[owner[r]]

\* C15: when authenticate() succeeds with a returned pair, the store holds
\* exactly that pair (the refresh token and the access token of one response),
\* and every attempt started afterwards carries the access token the store
\* holds at that moment, that of the latest successful authentication.
C15_AttemptsCarryStoredToken ==
    /\ [][\A r \in Callers :
             /\ SettlesWith(r, "ok")
                    => /\ PairOf(r) /= 0
                       /\ refresh_token'[owner[r]] = PairOf(r)
                       /\ token'[owner[r]] = PairOf(r)
             /\ calls'[r] = calls[r] + 1
                    => /\ bearer'[r] = token[owner'[r]]
                       /\ bearer'[r] = refresh_token[owner'[r]]]_vars
    /\ [](\A r \in Callers :
             (kind[r] = "request" /\ awaited[r] /= <<>> /\ Last(awaited[r]) = "ok"
                  /\ pc[r] = "inflight" /\ Alone(r))
                 => bearer[r] = token[owner[r]] /\ bearer[r] /= 0)

\* A request was answered 401 twice: the first authentication stored the pair
\* of a login, the second the pair of a refresh, which the third attempt
\* carries.
C15_Witness ==
    \E r \in Callers :
        /\ kind[r] = "request" /\ pc[r] = "inflight" /\ calls[r] = 3
        /\ awaited[r] = <<"ok", "ok">>
        /\ loginTrips[owner[r]] = 1 /\ refreshTrips[owner[r]] = 1
        /\ bearer[r] = 2 /\ token[owner[r]] = 2 /\ refresh_token[owner[r]] = 2

\* ========================================================= attempt ceiling
\* C16: one logical execute() call never invokes requestFn more than
\* MaxAttempts times, and when the attempt that reaches the ceiling is
\* answered with an error classified Retry or ReauthenticateThenRetry the
\* call fails with RetryExhausted (and only then), without starting an
\* authentication.
C16_AttemptCeiling ==
    /\ [](\A r \in Callers :
             /\ calls[r] <= MaxAttempts
             /\ result[r].type = "RetryExhausted"
                    => /\ pc[r] = "failed" /\ calls[r] = MaxAttempts
                       /\ kind[r] = "request"
                       /\ \/ lastErr[r] = TransportError
                          \/ lastErr[r].k = "status"
                                /\ lastErr[r].code \in RetryableStatuses \cup {Unauthorized})
    /\ [][\A r \in Callers :
             (Answered(r) /\ calls[r] = MaxAttempts /\ kind[r] = "request"
                  /\ \/ lastErr'[r] = TransportError
                     \/ lastErr'[r].k = "status"
                           /\ lastErr'[r].code \in RetryableStatuses \cup {Unauthorized})
                 => /\ pc'[r] = "failed"
                    /\ result'[r] = Raised("RetryExhausted", NoError)
                    /\ UNCHANGED <<authCalls, authPromise, started>>]_vars

\* A request was answered with a retryable failure MaxAttempts times and
\* failed with RetryExhausted.
C16_Witness ==
    \E r \in Callers :
        /\ kind[r] = "request" /\ pc[r] = "failed"
        /\ result[r] = Raised("RetryExhausted", NoError)
        /\ calls[r] = MaxAttempts /\ Len(resps[r]) = MaxAttempts
        /\ \A i \in 1..Len(resps[r]) : resps[r][i] = "Retry"

\* ============================================================= termination
\* The terminal states of a logical execute() call: Success with requestFn's
\* value, or Fail with a typed failure.
Terminal(r) ==
    \/ pc[r] = "done" /\ result[r] = Value
    \/ pc[r] = "failed"
          /\ result[r].type \in {"error", "NonRetryableRequestError", "RetryExhausted"}

\* C17: under fairness of the round trips, every logical execute() call that
\* was started eventually reaches a terminal state, whatever the backend
\* answers (a retryable status or 401 to every attempt included); none stays
\* in an attempt, in the classification or waiting on an authentication.
C17_EveryCallTerminates ==
    \A r \in Callers :
        (kind[r] \in {"request", "authRequest"} /\ pc[r] /= "new") ~> Terminal(r)

\* Every attempt of a request was answered 401 and the call ended at the
\* attempt ceiling.
C17_Witness ==
    \E r \in Callers :
        /\ kind[r] = "request" /\ Terminal(r) /\ pc[r] = "failed"
        /\ calls[r] = MaxAttempts /\ Len(resps[r]) = MaxAttempts
        /\ \A i \in 1..Len(resps[r]) : resps[r][i] = "ReauthenticateThenRetry"
        /\ Len(awaited[r]) = MaxAttempts - 1

\* ==================================================== isAuthenticated(), login()
\* C18: isAuthenticated() returns true exactly when the status endpoint
\* answers successfully and names the signer's DID; for another user, a null
\* user, a non-success status or a network error it returns false and does
\* not throw; it makes one status round trip and starts no authentication.
C18_IsAuthenticatedVerdict ==
    \A r \in Callers :
        kind[r] = "isAuthenticated"
            => /\ pc[r] \in {"probe", "done"}
               /\ pc[r] = "probe" <=> probed[r] = "none"
               /\ probed[r] = "self" => result[r].type = "true"
               /\ probed[r] \in {"other", "null", "status500", "neterror"}
                      => result[r].type = "false"
               /\ result[r].type = "true" => probed[r] = "self"
               /\ result[r].err = NoError
               /\ started[r] = 0 /\ sawRunning[r] = <<>> /\ calls[r] = 0
               /\ statusTrips[owner[r]] >= 1

\* isAuthenticated() returned false on a network error of the status endpoint.
C18_Witness ==
    \E r \in Callers :
        /\ kind[r] = "isAuthenticated" /\ pc[r] = "done"
        /\ probed[r] = "neterror" /\ result[r].type = "false"

Needs(r) == Len(sawRunning'[r]) = Len(sawRunning[r]) + 1

\* C20: the in-flight marker of a client is set exactly while an
\* authenticate() invocation runs on it: it is set in the step that starts
\* the invocation and cleared in the step that settles it, on success and on
\* failure alike; a need for authentication that arises while the marker is
\* clear starts a fresh invocation with a round trip of its own.
C20_MarkerSetWhileAuthenticating ==
    /\ [](\A c \in Clients :
             /\ authPromise[c] /= 0 <=> Running(c) /= {}
             /\ authPromise[c] /= 0 => authPromise[c] \in Running(c))
    /\ [][\A r \in Callers :
             /\ Begins(r) => authPromise[owner[r]] = 0 /\ authPromise'[owner[r]] = r
             /\ (SettlesWith(r, "ok") \/ SettlesWith(r, "fail"))
                    => authPromise[owner[r]] = r /\ authPromise'[owner[r]] = 0
             /\ (authPc[r] /= "idle" /\ authPc'[r] = "idle")
                    => (SettlesWith(r, "ok") \/ SettlesWith(r, "fail"))
             /\ (Needs(r) /\ authPromise[owner[r]] = 0)
                    => /\ Begins(r)
                       /\ authCalls'[owner[r]] = authCalls[owner[r]] + 1
                       /\ refreshTrips'[owner[r]] + loginTrips'[owner[r]]
                              = refreshTrips[owner[r]] + loginTrips[owner[r]] + 1]_vars

\* After the authentication a request started had failed, the request was
\* answered 401 again and a second authentication, with its own login round
\* trip, is in flight.
C20_Witness ==
    \E r \in Callers :
        /\ kind[r] = "request" /\ awaited[r] = <<"fail">> /\ started[r] = 2
        /\ pc[r] = "awaitAuth" /\ authPromise[owner[r]] = r /\ authPc[r] = "login"
        /\ authCalls[owner[r]] = 2 /\ loginTrips[owner[r]] = 2

\* ================================================ rounds of re-authentication
\* C21: a failure of the login or refresh endpoint during re-authentication is
\* not retried as a generic retryable call is: a refresh round trip is sent
\* only by an invocation of authenticate() that starts, a login round trip
\* only by an invocation that enters its login step, and an invocation never
\* goes back to a step it has left; so each round makes at most one refresh
\* and at most one login round trip.
C21_AuthRoundTripsNotRetried ==
    /\ [](\A c \in Clients :
             /\ refreshTrips[c] <= authCalls[c]
             /\ loginTrips[c] <= authCalls[c]
             /\ loginRejected[c] <= loginTrips[c])
    /\ [][\A c \in Clients :
             /\ refreshTrips'[c] /= refreshTrips[c]
                    => /\ refreshTrips'[c] = refreshTrips[c] + 1
                       /\ authCalls'[c] = authCalls[c] + 1
                       /\ \E r \in Callers : owner[r] = c /\ Begins(r) /\ authPc'[r] = "refresh"
             /\ loginTrips'[c] /= loginTrips[c]
                    => /\ loginTrips'[c] = loginTrips[c] + 1
                       /\ \E r \in Callers : owner[r] = c /\ LoginSent(r)]_vars
    /\ [][\A r \in Callers :
             /\ (authPc[r] = "refresh" /\ authPc'[r] /= "refresh")
                    => authPc'[r] \in {"status", "login"}
             /\ (authPc[r] = "status" /\ authPc'[r] /= "status")
                    => authPc'[r] \in {"login", "idle"}
             /\ (authPc[r] = "login" /\ authPc'[r] /= "login") => authPc'[r] = "idle"]_vars

\* The second authentication of a client sent one refresh round trip, which
\* failed, then one login round trip, which was rejected, and settled.
C21_Witness ==
    \E c \in Clients :
        /\ authCalls[c] = 2 /\ refreshTrips[c] = 1 /\ loginTrips[c] = 2
        /\ loginRejected[c] = 1 /\ authPromise[c] = 0 /\ statusTrips[c] = 0
        /\ token[c] = 1

Reauth == "ReauthenticateThenRetry"

\* C22: a wrapped request answered 401 whose login fails with a 5xx is still
\* retried; with the answers 401, 401, 200 to the request and 500, success to
\* login, execute() returns the value after exactly 3 requestFn invocations
\* and exactly 2 login round trips (stage by stage for a request that is the
\* only caller of its client).
C22_RetriedAfterFailedLogin ==
    \A r \in Callers :
        (kind[r] = "request" /\ Alone(r))
            => /\ (resps[r] = <<Reauth>> /\ awaited[r] = <<"fail">>)
                      => /\ pc[r] \in {"ready", "inflight"}
                         /\ calls[r] = IF pc[r] = "ready" THEN 1 ELSE 2
                         /\ loginTrips[owner[r]] = 1 /\ loginRejected[owner[r]] = 1
                         /\ result[r] = NoResult
               /\ (resps[r] = <<Reauth, Reauth>> /\ awaited[r] = <<"fail">>)
                      => /\ pc[r] = "awaitAuth" /\ authPc[r] = "login" /\ calls[r] = 2
                         /\ loginTrips[owner[r]] = 2
               /\ (resps[r] = <<Reauth, Reauth>> /\ awaited[r] = <<"fail", "ok">>)
                      => /\ pc[r] \in {"ready", "inflight"}
                         /\ calls[r] = IF pc[r] = "ready" THEN 2 ELSE 3
               /\ (resps[r] = <<Reauth, Reauth, "ok">> /\ awaited[r] = <<"fail", "ok">>)
                      => /\ pc[r] = "done" /\ result[r] = Value
                         /\ calls[r] = 3
                         /\ loginTrips[owner[r]] = 2 /\ loginRejected[owner[r]] = 1
                         /\ refreshTrips[owner[r]] = 0 /\ statusTrips[owner[r]] = 0
                         /\ authCalls[owner[r]] = 2

\* The request answered 401, 401, 200 with login answered 500, success
\* returned its value.
C22_Witness ==
    \E r \in Callers :
        /\ kind[r] = "request" /\ Alone(r)
        /\ resps[r] = <<Reauth, Reauth, "ok">> /\ awaited[r] = <<"fail", "ok">>
        /\ pc[r] = "done" /\ calls[r] = 3 /\ loginTrips[owner[r]] = 2

\* The 401 answers below the attempt ceiling among the answers r has got.
Reauths(r) == {i \in 1..Len(resps[r]) : resps[r][i] = Reauth /\ i < MaxAttempts}

\* C23: within one logical call re-authentication happens once per 401
\* received: every 401 below the attempt ceiling makes the call need
\* authentication and wait for it, whatever authentications the call has
\* completed before, and starts an authenticate() invocation when none is in
\* flight; a call that is the only caller of its client has started as many
\* authentications as it has received such 401s.
C23_ReauthenticateOncePer401 ==
    /\ [][\A r \in Callers :
             (Answered(r) /\ kind[r] = "request" /\ lastErr'[r] = StatusError(401)
                  /\ calls[r] < MaxAttempts)
                 => /\ Needs(r)
                    /\ pc'[r] = "awaitAuth"
                    /\ Len(awaited'[r]) = Len(sawRunning[r])
                    /\ authPromise[owner[r]] = 0
                           => /\ Begins(r)
                              /\ authCalls'[owner[r]] = authCalls[owner[r]] + 1]_vars
    /\ [](\A r \in Callers :
             (kind[r] = "request" /\ Alone(r))
                 => /\ started[r] = Cardinality(Reauths(r))
                    /\ authCalls[owner[r]] = started[r]
                    /\ Len(sawRunning[r]) = started[r])

\* A request whose re-authentication had succeeded was answered 401 again and
\* started a second authentication.
C23_Witness ==
    \E r \in Callers :
        /\ kind[r] = "request" /\ Alone(r)
        /\ resps[r] = <<Reauth, Reauth>> /\ awaited[r] = <<"ok">>
        /\ started[r] = 2 /\ pc[r] = "awaitAuth" /\ authPc[r] = "refresh"

\* C24: an error thrown by handleRequestError() while it processes a retryable
\* failure is not the outcome of the call: below the attempt ceiling the call
\* is left without a result and ready to invoke requestFn again, without any
\* authentication, and it ends with the value when a later attempt succeeds.
C24_HandlerErrorNotSurfaced ==
    [][\A r \in Callers :
          /\ handlerErrs'[r] > handlerErrs[r]
                => /\ Answered(r)
                   /\ Last(resps'[r]) = "Retry"
                   /\ started'[r] = started[r] /\ sawRunning'[r] = sawRunning[r]
                   /\ authCalls' = authCalls /\ authPromise' = authPromise
                   /\ calls[r] < MaxAttempts
                         => pc'[r] = "ready" /\ result'[r] = NoResult
          /\ (handlerErrs[r] > 0 /\ pc[r] = "ready" /\ pc'[r] /= "ready")
                => pc'[r] = "inflight" /\ calls'[r] = calls[r] + 1
          /\ (handlerErrs[r] > 0 /\ Answered(r) /\ Last(resps'[r]) = "ok")
                => pc'[r] = "done" /\ result'[r] = Value]_vars

\* handleRequestError() threw on the first, retryable failure and the second
\* attempt succeeded: the call returned the value after two invocations.
C24_Witness ==
    \E r \in Callers :
        /\ kind[r] = "request" /\ handlerErrs[r] = 1
        /\ resps[r] = <<"Retry", "ok">>
        /\ pc[r] = "done" /\ result[r] = Value /\ calls[r] = 2

\* C25: inside authenticate() the status probe is sent exactly when the
\* refresh round trip succeeded, never after a refresh that failed and never
\* when authenticate() goes to login directly; when the probe reports the
\* client's own subject authenticate() succeeds without a login round trip,
\* and on any other answer it sends the login round trip.
C25_StatusProbeAfterRefresh ==
    [][\A r \in Callers :
          LET c == owner[r]
          IN  /\ (authPc[r] /= "status" /\ authPc'[r] = "status")
                    => /\ authPc[r] = "refresh"
                       /\ faults' = faults
                       /\ refreshed'[r] = issued' /\ issued' = issued + 1
                       /\ statusTrips'[c] = statusTrips[c] + 1
              /\ (authPc[r] = "refresh" /\ authPc'[r] /= "refresh")
                    => \/ authPc'[r] = "status" /\ loginTrips' = loginTrips
                       \/ LoginSent(r) /\ statusTrips' = statusTrips /\ refreshed'[r] = 0
              /\ Begins(r) /\ authPc'[r] /= "refresh"
                    => LoginSent(r) /\ statusTrips' = statusTrips
              /\ (authPc[r] = "status" /\ authPc'[r] /= "status")
                    => IF authProbed'[c] = "self"
                       THEN /\ SettlesWith(r, "ok")
                            /\ loginTrips' = loginTrips
                            /\ token'[c] = refreshed[r]
                       ELSE /\ LoginSent(r)
                            /\ loginTrips'[c] = loginTrips[c] + 1
                            /\ authPromise'[c] = authPromise[c]
              /\ (authPc[r] /= "status" /\ pc[r] /= "new")
                    => statusTrips'[c] = statusTrips[c]
                          \/ \E q \in Callers :
                                 \/ pc[q] = "new" /\ pc'[q] = "probe"
                                 \/ authPc[q] = "refresh" /\ authPc'[q] = "status"]_vars

\* An authentication whose refresh succeeded and whose status probe named
\* another subject is sending its login round trip.
C25_Witness ==
    \E r \in Callers :
        /\ authPc[r] = "login" /\ refreshed[r] /= 0
        /\ authProbed[owner[r]] = "other"
        /\ statusTrips[owner[r]] >= 1 /\ refreshTrips[owner[r]] >= 1

\* C26: the stored access token and refresh token of a client are both empty
\* or both come from one response, in every state of every interleaving.
C26_TokensAreOnePair ==
    \A c \in Clients :
        /\ token[c] = refresh_token[c]
        /\ token[c] \in 0..issued

\* Two calls of one client are under way while the client stores a pair
\* newer than the bearer one of them was sent with.
C26_Witness ==
    \E r, q \in Callers :
        /\ r /= q /\ owner[r] = owner[q]
        /\ pc[r] = "inflight" /\ pc[q] \in {"inflight", "awaitAuth", "ready"}
        /\ token[owner[r]] /= 0
        /\ bearer[r] /= token[owner[r]]

Acts(r) == pc'[r] /= pc[r] \/ authPc'[r] /= authPc[r]

\* TRUE in a step that changes the credentials or the marker of client d.
Touched(d) ==
    \/ token'[d] /= token[d]
    \/ refresh_token'[d] /= refresh_token[d]
    \/ authPromise'[d] /= authPromise[d]

\* C28: client instances share neither credentials nor the in-flight marker:
\* the credentials and the marker of a client change only in steps of that
\* client's own callers, a caller waits only for an authentication of its own
\* client, the marker of a client names a caller of that client, and a caller
\* that needs authentication while its own client has none in flight starts
\* one, whatever the other clients are doing.
C28_ClientsAreIsolated ==
    /\ [](\A r \in Callers :
             /\ waitsOn[r] /= 0 => owner[waitsOn[r]] = owner[r]
             /\ \A c \in Clients : authPromise[c] = r => (owner[r] = c /\ authPc[r] /= "idle"))
    /\ [][\A d \in Clients :
             /\ Touched(d)
                   => /\ \E q \in Callers : Acts(q)
                      /\ \A q \in Callers : Acts(q) => (pc[q] /= "new" /\ owner[q] = d)
             /\ \A r \in Callers :
                   (owner[r] = d /\ Needs(r) /\ authPromise[d] = 0)
                       => Begins(r) /\ authPromise'[d] = r]_vars

\* One client holds credentials from an authentication that completed, while
\* another client, still without credentials, has its own authentication in
\* flight.
C28_Witness ==
    \E c, d \in Clients :
        /\ c /= d
        /\ token[c] /= 0 /\ authPromise[c] = 0
        /\ token[d] = 0 /\ authPromise[d] /= 0
        /\ authPc[authPromise[d]] = "login"

\* C29: when the first attempt of a call succeeds the call returns that value
\* after exactly one invocation of requestFn, having started and awaited no
\* authentication, and the step that answers it leaves the credentials and
\* the marker of every client as they were.
C29_FirstAttemptSuccess ==
    /\ [](\A r \in Callers :
             (resps[r] /= <<>> /\ resps[r][1] = "ok")
                 => /\ pc[r] = "done" /\ result[r] = Value
                    /\ calls[r] = 1 /\ resps[r] = <<"ok">>
                    /\ started[r] = 0 /\ sawRunning[r] = <<>> /\ awaited[r] = <<>>
                    /\ authPc[r] = "idle" /\ waitsOn[r] = 0)
    /\ [][\A r \in Callers :
             (Answered(r) /\ resps'[r] = <<"ok">>)
                 => /\ UNCHANGED <<token, refresh_token, authPromise>>
                    /\ UNCHANGED <<authCalls, loginTrips, refreshTrips, statusTrips>>]_vars

\* A request was answered on its first attempt while its client held
\* credentials, and returned the value.
C29_Witness ==
    \E r \in Callers :
        /\ kind[r] = "request" /\ resps[r] = <<"ok">>
        /\ pc[r] = "done" /\ result[r] = Value /\ calls[r] = 1
        /\ token[owner[r]] /= 0 /\ bearer[r] = token[owner[r]]

\* C30: an attempt whose failure is classified Retry or Fail leaves the
\* credentials and the marker of every client unchanged and starts no
\* authentication; within a wrapped call an authentication starts only in the
\* step that answers a 401 to a call that is not to the authentication
\* endpoint.
C30_OnlyReauthenticateAuthenticates ==
    [][\A r \in Callers :
          /\ (Answered(r) /\ Last(resps'[r]) \in {"Retry", "Fail"})
                => /\ UNCHANGED <<token, refresh_token, authPromise>>
                   /\ UNCHANGED <<authCalls, loginTrips, refreshTrips, statusTrips>>
                   /\ started'[r] = started[r] /\ sawRunning'[r] = sawRunning[r]
                   /\ authPc'[r] = "idle"
          /\ (kind[r] \in {"request", "authRequest"} /\ (Begins(r) \/ Needs(r)))
                => /\ Answered(r)
                   /\ kind[r] = "request"
                   /\ lastErr'[r] = StatusError(Unauthorized)
                   /\ Last(resps'[r]) = Reauth]_vars

\* A request was answered a retryable failure while an authentication of its
\* client was in flight, and is ready for its next attempt with the marker
\* still set.
C30_Witness ==
    \E r \in Callers :
        /\ kind[r] = "request" /\ pc[r] = "ready"
        /\ Last(resps[r]) = "Retry"
        /\ authPromise[owner[r]] \notin {0, r}

\* ===================================================== bounded authentication
RECURSIVE Total(_, _)
\* The sum of f over the callers in S.
Total(f, S) ==
    IF S = {} THEN 0
    ELSE LET r == CHOOSE q \in S : TRUE IN f[r] + Total(f, S \ {r})

\* The answers 401 a wrapped call has received.
Unauthorizeds(r) == {i \in 1..Len(resps[r]) : resps[r][i] = Reauth}

\* C31: the authentications started from wrapped calls never outnumber the
\* 401 answers received by calls that are not to the authentication endpoint,
\* call by call and so in total, and an authentication starts only in the
\* step that answers such a 401 or in a login() whose probe did not report
\* the client authenticated: every authenticate() invocation of a client is
\* one started by one of those.
C31_AuthenticationsBoundedBy401s ==
    /\ [](\A r \in Callers :
             /\ kind[r] = "request" => started[r] <= Cardinality(Unauthorizeds(r))
             /\ kind[r] \in {"none", "authRequest", "isAuthenticated"} => started[r] = 0
             /\ kind[r] = "login"
                   => /\ started[r] <= 1
                      /\ started[r] = 1 => probed[r] \notin {"none", "self"})
    /\ [](\A c \in Clients :
             authCalls[c] = Total(started, {q \in Callers : kind[q] /= "none" /\ owner[q] = c}))
    /\ [][\A r \in Callers :
             /\ (Answered(r) /\ Last(resps'[r]) = Reauth)
                   => kind[r] = "request" /\ lastErr'[r] = StatusError(Unauthorized)
             /\ (Begins(r) \/ started'[r] /= started[r])
                   => /\ Begins(r) /\ started'[r] = started[r] + 1
                      /\ \/ /\ kind[r] = "request" /\ pc[r] = "inflight"
                            /\ lastErr'[r] = StatusError(Unauthorized)
                         \/ kind[r] = "login" /\ pc[r] = "probe"]_vars

\* Two requests of one client were each answered 401 and one authentication
\* was started for both.
C31_Witness ==
    \E r, q \in Callers :
        /\ r /= q /\ owner[r] = owner[q]
        /\ kind[r] = "request" /\ kind[q] = "request"
        /\ Unauthorizeds(r) /= {} /\ Unauthorizeds(q) /= {}
        /\ started[r] = 1 /\ started[q] = 0
        /\ authCalls[owner[r]] = 1

\* C32: no caller waits for ever on the in-flight authentication: a caller
\* that waits is waiting on an authenticate() invocation that is running, it
\* stops waiting in the step in which that invocation settles, and every
\* caller that waits eventually stops waiting; whenever no authenticate()
\* invocation is running on a client, its marker is empty.
C32_NoWaitForEver ==
    /\ [](\A c \in Clients : Running(c) = {} => authPromise[c] = 0)
    /\ [](\A r \in Callers :
             pc[r] = "awaitAuth"
                 => /\ waitsOn[r] /= 0
                    /\ authPromise[owner[r]] = waitsOn[r]
                    /\ authPc[waitsOn[r]] /= "idle")
    /\ [][\A r0, r \in Callers :
             (authPc[r0] /= "idle" /\ authPc'[r0] = "idle" /\ Waits(r, r0))
                 => /\ pc'[r] /= "awaitAuth" /\ waitsOn'[r] = 0
                    /\ Len(awaited'[r]) = Len(awaited[r]) + 1
                    /\ authPromise'[owner[r]] = 0]_vars
    /\ \A r \in Callers : (pc[r] = "awaitAuth") ~> (pc[r] /= "awaitAuth")

\* A request that joined an authentication started by another request was
\* resumed when that authentication failed, and the marker is empty.
C32_Witness ==
    \E r \in Callers :
        /\ kind[r] = "request" /\ started[r] = 0
        /\ sawRunning[r] = <<TRUE>> /\ awaited[r] = <<"fail">>
        /\ pc[r] = "ready" /\ authPromise[owner[r]] = 0

====
